---- MODULE Spec2Model ----
(***************************************************************************)
(* Model of the P10 LED panel driver (src/src/lib.rs): the P10Led struct,  *)
(* its constructor, set_brightness, the blocking and async flush loops     *)
(* with fill_cache and next_row, the mode conversions and draw_iter.       *)
(* Every collaborator call (bus write, brightness actuator, digital line)  *)
(* is one step that either succeeds or fails.                              *)
(***************************************************************************)
EXTENDS Integers, Sequences, FiniteSets, TLC

\* ---------------------------------------------------------------- bounds
MaxPX == 3
MaxPY == 2
MaxCalls == 2
MaxFailures == 1
MaxFillCalls == 1

\* ------------------------------------------------------ program constants
PANEL_WIDTH == 32
PANEL_HEIGHT == 16
BITMAP_LEN == 256
CACHE_LEN == 64
CHUNK == 4
\* faulty variant: the loop runs one pass short
PASSES_short == CHUNK - 1
PASSES == 4
DUTY_DENOM == 65535

\* brightness levels handed to new and set_brightness (u16)
Levels == {0, 32768}

Geometries == (1..MaxPX) \X (1..MaxPY)

Min(a, b) == IF a < b THEN a ELSE b
Max(a, b) == IF a > b THEN a ELSE b

VARIABLES
    PX, PY,            \* const generics of the instantiation
    overflow_checks,   \* build profile: arithmetic overflow checks on (debug) or off (release)
    mode,              \* "Blocking" or "Async" (the MODE type parameter)
    pc,                \* position of the single owner: which call step comes next
    pass,              \* loop index of `for _ in 0..4`
    brightness, bitmap, cache, scan_row,   \* fields of P10Led
    pwm,               \* brightness actuator: the last command it accepted
    latch, pin_a, pin_b,  \* digital lines: TRUE = high
    spi_buf,           \* the buffer handed to the last bus write
    sent,              \* the buffers the bus accepted in the current (or last) flush
    call,              \* the current (or last) call on the device
    result,            \* what the last call returned
    ops,               \* operations of the current (or last) call, in order
    entry_row,         \* scan_row on entry of the current (or last) flush
    pass_row,          \* scan_row on entry of the current (or last) scan pass
    n_ok,              \* scan passes completed successfully since construction
    n_unblank_fail,    \* scan passes aborted by a failing unblank
    calls,             \* calls made on the device since construction
    level_arg,         \* the level argument of the last `new` or `set_brightness`
    prev_bitmap,       \* the framebuffer on entry of the current (or last) call
    drawn,             \* the pixels given to the current (or last) draw_iter call
    fail_left          \* collaborator failures the exploration may still inject

dev == <<brightness, bitmap, cache, scan_row>>
lines == <<latch, pin_a, pin_b>>
config == <<PX, PY, overflow_checks>>
args == <<level_arg, prev_bitmap, drawn>>
hist == <<call, entry_row, pass_row, n_ok, n_unblank_fail, level_arg,
         prev_bitmap, drawn>>
bus == <<spi_buf, sent>>
vars == <<PX, PY, overflow_checks, mode, pc, pass, brightness, bitmap, cache,
          scan_row, pwm, latch, pin_a, pin_b, spi_buf, sent, call, result, ops, entry_row,
          pass_row, n_ok, n_unblank_fail, calls, level_arg, prev_bitmap, drawn,
          fail_left>>

\* ------------------------------------------------------------- geometry
WIDTH == PX * PANEL_WIDTH
HEIGHT == PY * PANEL_HEIGHT
HEIGHT_IN_PANELS == PY

row_width_bytes ==
    IF WIDTH % 8 = 0 THEN WIDTH \div 8 ELSE WIDTH \div 8 + 1

unified_width_bytes == row_width_bytes * HEIGHT_IN_PANELS

\* ------------------------------------------------------ pixel addressing
pixel_to_bitmap_index(x, y) ==
    LET panel == (x \div PANEL_WIDTH) + ((WIDTH \div PANEL_WIDTH) * (y \div PANEL_HEIGHT))
        x1 == (x % PANEL_WIDTH) + (panel * PANEL_WIDTH)
        y1 == y % PANEL_HEIGHT
    IN  x1 \div 8 + y1 * unified_width_bytes

\* 1u8 << (8 - x % 8): a shift by 8 overflows the u8.  With overflow checks
\* the program panics (-1 here); without, the shift amount wraps to 8 % 8 = 0.
pixel_to_bitmask(x) ==
    LET sh == 8 - (x % 8)
    IN  IF sh >= 8
        THEN (IF overflow_checks THEN -1 ELSE 2 ^ (sh % 8))
        ELSE 2 ^ sh

\* ------------------------------------------------------------ bytes
BitIsSet(b, m) == (b \div m) % 2 = 1
AndNot(b, m) == IF BitIsSet(b, m) THEN b - m ELSE b
Or(b, m) == IF BitIsSet(b, m) THEN b ELSE b + m

\* ------------------------------------------------------------ fill_cache
\* bitmap.iter().skip(start).take(rowsize): how many items it yields
RowIterLen(start, rowsize) == Max(0, Min(rowsize, BITMAP_LEN - start))

\* The zip of the cache's 4-byte chunks with the four row iterators ends with
\* the shortest of them; chunks past that keep their bytes.
fill_cache(bm, ch, s) ==
    LET rowsize == unified_width_bytes
        n == Min(CACHE_LEN \div CHUNK,
             Min(RowIterLen((s + 0) * rowsize, rowsize),
             Min(RowIterLen((s + 4) * rowsize, rowsize),
             Min(RowIterLen((s + 8) * rowsize, rowsize),
                 RowIterLen((s + 12) * rowsize, rowsize)))))
    IN  [j \in 0..(CACHE_LEN - 1) |->
            IF j \div CHUNK < n
            THEN bm[(s + 4 * (j % CHUNK)) * rowsize + j \div CHUNK]
            ELSE ch[j]]

\* --------------------------------------------------------------- draw_iter
\* faulty variant: the right edge is taken as part of the display
InBounds_inclusive(p) == p[1] >= 0 /\ p[1] <= WIDTH /\ p[2] >= 0 /\ p[2] < HEIGHT

\* A pixel is <<x, y, on>>.  bounding_box().contains(pos)
InBounds(p) == p[1] >= 0 /\ p[1] < WIDTH /\ p[2] >= 0 /\ p[2] < HEIGHT

\* One iteration of the loop body on st = [bm, panic, cause]: the mask is
\* computed (and may overflow) before the byte is indexed
DrawPixel(st, p) ==
    IF st.panic \/ ~InBounds(p) THEN st
    ELSE LET byte_idx == pixel_to_bitmap_index(p[1], p[2])
             bit == pixel_to_bitmask(p[1])
         IN  IF bit < 0
             THEN [st EXCEPT !.panic = TRUE, !.cause = "panic_shift"]
             ELSE IF byte_idx >= BITMAP_LEN
             THEN [st EXCEPT !.panic = TRUE, !.cause = "panic_index"]
             ELSE [st EXCEPT !.bm[byte_idx] =
                      IF p[3] THEN AndNot(@, bit) ELSE Or(@, bit)]

\* The loop over pixels[lo..hi], in order; a panic ends it
RECURSIVE DrawRange(_, _, _, _)
DrawRange(st, pixels, lo, hi) ==
    IF lo > hi THEN st
    ELSE IF lo = hi THEN DrawPixel(st, pixels[lo])
    ELSE LET mid == (lo + hi) \div 2
             left == DrawRange(st, pixels, lo, mid)
         IN  IF left.panic THEN left ELSE DrawRange(left, pixels, mid + 1, hi)

draw_iter_result(bm, pixels) ==
    DrawRange([bm |-> bm, panic |-> FALSE, cause |-> "none"], pixels, 1,
              Len(pixels))

\* Inputs of draw_iter: single pixels at the corners and just outside the
\* display, in either colour; the whole display drawn on, row by row; a
\* batch mixing pixels outside the display with one inside; a corner pixel
\* drawn on and then off.
DrawPoints ==
    {<<0, 0>>, <<WIDTH - 1, HEIGHT - 1>>,
     <<WIDTH, 0>>, <<0, HEIGHT>>, <<-1, 0>>}

FillAll ==
    [i \in 1..(WIDTH * HEIGHT) |-> <<(i - 1) % WIDTH, (i - 1) \div WIDTH, TRUE>>]

Mixed ==
    << <<WIDTH, 0, TRUE>>, <<WIDTH - 1, HEIGHT - 1, TRUE>>, <<-1, 0, FALSE>>,
       <<0, HEIGHT, TRUE>> >>

OnOff(p) == << <<p[1], p[2], TRUE>>, <<p[1], p[2], FALSE>> >>

Batches ==
    {<< <<p[1], p[2], on>> >> : p \in DrawPoints, on \in BOOLEAN}
        \cup {FillAll, Mixed, OnOff(<<0, 0>>), OnOff(<<WIDTH - 1, HEIGHT - 1>>)}

\* The batches tried by the call after n earlier calls: the whole-display
\* batch is tried only among the first MaxFillCalls calls on a device
BatchesAt(n) == IF n < MaxFillCalls THEN Batches ELSE Batches \ {FillAll}

\* ------------------------------------------------------------------ Init
\* Before `new`: the collaborators exist, the device does not.
InitWith(G, budget) ==
    /\ \E g \in G : PX = g[1] /\ PY = g[2]
    /\ overflow_checks \in BOOLEAN
    /\ fail_left = budget
    /\ mode = "Blocking"
    /\ pc = "uninit"
    /\ pass = 0
    /\ brightness = 0
    /\ bitmap = [i \in 0..(BITMAP_LEN - 1) |-> 0]
    /\ cache = [i \in 0..(CACHE_LEN - 1) |-> 0]
    /\ scan_row = 0
    /\ pwm = <<"none", 0>>
    /\ latch = FALSE /\ pin_a = FALSE /\ pin_b = FALSE
    /\ spi_buf = [i \in {} |-> 0]
    /\ sent = <<>>
    /\ call = "none"
    /\ result = "none"
    /\ ops = <<>>
    /\ entry_row = 0 /\ pass_row = 0
    /\ n_ok = 0 /\ n_unblank_fail = 0
    /\ calls = 0
    /\ level_arg = 0
    /\ prev_bitmap = bitmap
    /\ drawn = <<>>

\* The default instantiation (PX = 1, PY = 1), collaborators that may fail
Init == InitWith({<<1, 1>>}, MaxFailures)

\* Every tile geometry, collaborators that do not fail
InitGeom == InitWith(Geometries, 0)

\* ----------------------------------------------------- collaborator calls
\* faulty variant: a failed call is tried again instead of returning the error
Call_retry(op, ok, next, err) ==
    /\ ok \/ fail_left > 0
    /\ fail_left' = IF ok THEN fail_left ELSE fail_left - 1
    /\ ops' = Append(ops, [op |-> op, ok |-> ok, row |-> scan_row])
    /\ pc' = IF ok THEN next ELSE pc
    /\ result' = result

\* One collaborator call `op` of a flush with outcome ok: `.map_err(|_| err)?`
\* returns err from flush on failure, else control goes on to `next`.
Call(op, ok, next, err) ==
    /\ ok \/ fail_left > 0
    /\ fail_left' = IF ok THEN fail_left ELSE fail_left - 1
    /\ ops' = Append(ops, [op |-> op, ok |-> ok, row |-> scan_row])
    /\ pc' = IF ok THEN next ELSE "idle"
    /\ result' = IF ok THEN result ELSE err

\* ------------------------------------------------------------------- new
\* faulty variant: the framebuffer starts zeroed (all lit) instead of dark
new_zeroed ==
    /\ pc = "uninit"
    /\ \E b \in Levels, ok \in BOOLEAN :
        /\ ok \/ fail_left > 0
        /\ fail_left' = IF ok THEN fail_left ELSE fail_left - 1
        /\ ops' = <<[op |-> "pwm_fraction", ok |-> ok, row |-> scan_row]>>
        /\ level_arg' = b
        /\ IF ok
           THEN /\ pwm' = <<"fraction", b>>
                /\ brightness' = b
                /\ bitmap' = [i \in 0..(BITMAP_LEN - 1) |-> 0]
                /\ cache' = [i \in 0..(CACHE_LEN - 1) |-> 255]
                /\ scan_row' = 0
                /\ pc' = "idle"
                /\ result' = "Ok"
           ELSE /\ pc' = "no_device"
                /\ result' = "Pwm"
                /\ UNCHANGED <<pwm, dev>>
    /\ call' = "new"
    /\ prev_bitmap' = bitmap /\ drawn' = <<>>
    /\ UNCHANGED <<config, mode, pass, lines, bus, entry_row, pass_row, n_ok,
                   n_unblank_fail, calls>>

\* P10Led::new
new ==
    /\ pc = "uninit"
    /\ \E b \in Levels, ok \in BOOLEAN :
        /\ ok \/ fail_left > 0
        /\ fail_left' = IF ok THEN fail_left ELSE fail_left - 1
        /\ ops' = <<[op |-> "pwm_fraction", ok |-> ok, row |-> scan_row]>>
        /\ level_arg' = b
        /\ IF ok
           THEN /\ pwm' = <<"fraction", b>>
                /\ brightness' = b
                /\ bitmap' = [i \in 0..(BITMAP_LEN - 1) |-> 255]
                /\ cache' = [i \in 0..(CACHE_LEN - 1) |-> 255]
                /\ scan_row' = 0
                /\ pc' = "idle"
                /\ result' = "Ok"
           ELSE /\ pc' = "no_device"
                /\ result' = "Pwm"
                /\ UNCHANGED <<pwm, dev>>
    /\ call' = "new"
    /\ prev_bitmap' = bitmap /\ drawn' = <<>>
    /\ UNCHANGED <<config, mode, pass, lines, bus, entry_row, pass_row, n_ok,
                   n_unblank_fail, calls>>

\* -------------------------------------------------------- set_brightness
\* faulty variant: the level is commanded but not stored
set_brightness_unstored ==
    /\ pc = "idle" /\ calls < MaxCalls
    /\ calls' = calls + 1
    /\ \E b \in Levels, ok \in BOOLEAN :
        /\ ok \/ fail_left > 0
        /\ fail_left' = IF ok THEN fail_left ELSE fail_left - 1
        /\ brightness' = brightness
        /\ level_arg' = b
        /\ ops' = <<[op |-> "pwm_fraction", ok |-> ok, row |-> scan_row]>>
        /\ pwm' = IF ok THEN <<"fraction", b>> ELSE pwm
        /\ result' = IF ok THEN "Ok" ELSE "Pwm"
    /\ call' = "set_brightness"
    /\ prev_bitmap' = bitmap /\ drawn' = <<>>
    /\ UNCHANGED <<config, mode, pc, pass, bitmap, cache, scan_row, lines,
                   bus, entry_row, pass_row, n_ok, n_unblank_fail>>

\* self.brightness = brightness, then the actuator command
set_brightness ==
    /\ pc = "idle" /\ calls < MaxCalls
    /\ calls' = calls + 1
    /\ \E b \in Levels, ok \in BOOLEAN :
        /\ ok \/ fail_left > 0
        /\ fail_left' = IF ok THEN fail_left ELSE fail_left - 1
        /\ brightness' = b
        /\ level_arg' = b
        /\ ops' = <<[op |-> "pwm_fraction", ok |-> ok, row |-> scan_row]>>
        /\ pwm' = IF ok THEN <<"fraction", b>> ELSE pwm
        /\ result' = IF ok THEN "Ok" ELSE "Pwm"
    /\ call' = "set_brightness"
    /\ prev_bitmap' = bitmap /\ drawn' = <<>>
    /\ UNCHANGED <<config, mode, pc, pass, bitmap, cache, scan_row, lines,
                   bus, entry_row, pass_row, n_ok, n_unblank_fail>>

\* ------------------------------------------------------ mode conversions
asynch ==
    /\ pc = "idle" /\ mode = "Blocking" /\ calls < MaxCalls
    /\ calls' = calls + 1
    /\ mode' = "Async"
    /\ call' = "asynch"
    /\ prev_bitmap' = bitmap /\ drawn' = <<>>
    /\ ops' = <<>>
    /\ result' = "Ok"
    /\ UNCHANGED <<config, pc, pass, dev, pwm, lines, bus, entry_row,
                   pass_row, n_ok, n_unblank_fail, level_arg, fail_left>>

blocking ==
    /\ pc = "idle" /\ mode = "Async" /\ calls < MaxCalls
    /\ calls' = calls + 1
    /\ mode' = "Blocking"
    /\ call' = "blocking"
    /\ prev_bitmap' = bitmap /\ drawn' = <<>>
    /\ ops' = <<>>
    /\ result' = "Ok"
    /\ UNCHANGED <<config, pc, pass, dev, pwm, lines, bus, entry_row,
                   pass_row, n_ok, n_unblank_fail, level_arg, fail_left>>

\* ----------------------------------------------------------------- flush
flush_enter ==
    /\ pc = "idle" /\ calls < MaxCalls
    /\ calls' = calls + 1
    /\ pc' = "fill"
    /\ pass' = 0
    /\ ops' = <<>>
    /\ result' = "pending"
    /\ entry_row' = scan_row
    /\ call' = "flush"
    /\ prev_bitmap' = bitmap /\ drawn' = <<>>
    /\ sent' = <<>>
    /\ UNCHANGED <<config, mode, dev, pwm, lines, spi_buf, pass_row, n_ok,
                   n_unblank_fail, level_arg, fail_left>>

flush_fill_cache ==
    /\ pc = "fill"
    /\ cache' = fill_cache(bitmap, cache, scan_row)
    /\ pass_row' = scan_row
    /\ ops' = Append(ops, [op |-> "fill_cache", ok |-> TRUE, row |-> scan_row])
    /\ pc' = "spi"
    /\ UNCHANGED <<config, mode, pass, brightness, bitmap, scan_row, pwm,
                   lines, bus, call, result, entry_row, n_ok,
                   n_unblank_fail, calls, args, fail_left>>

\* faulty variant: the bus error is mapped to the wrong variant
flush_spi_write_wrong_err ==
    /\ pc = "spi" /\ mode = "Blocking"
    /\ spi_buf' = cache
    /\ \E ok \in BOOLEAN :
        /\ Call("spi_write", ok, "pwm_off", "Digital")
        /\ sent' = IF ok THEN Append(sent, cache) ELSE sent
    /\ UNCHANGED <<config, mode, pass, dev, pwm, lines, hist, calls>>

\* self.spi.write(&self.cache) in blocking mode: runs to completion
flush_spi_write ==
    /\ pc = "spi" /\ mode = "Blocking"
    /\ spi_buf' = cache
    /\ \E ok \in BOOLEAN :
        /\ Call("spi_write", ok, "pwm_off", "Spi")
        /\ sent' = IF ok THEN Append(sent, cache) ELSE sent
    /\ UNCHANGED <<config, mode, pass, dev, pwm, lines, hist, calls>>

\* self.spi.write(&self.cache).await in async mode: the write is started and
\* the task may be suspended until the bus completes it
flush_spi_write_start ==
    /\ pc = "spi" /\ mode = "Async"
    /\ spi_buf' = cache
    /\ pc' = "spi_await"
    /\ UNCHANGED <<config, mode, pass, dev, pwm, lines, sent, result, ops, hist,
                   calls, fail_left>>

flush_spi_write_await ==
    /\ pc = "spi_await"
    /\ \E ok \in BOOLEAN :
        /\ Call("spi_write", ok, "pwm_off", "Spi")
        /\ sent' = IF ok THEN Append(sent, spi_buf) ELSE sent
    /\ UNCHANGED <<config, mode, pass, dev, pwm, lines, spi_buf, hist, calls>>

\* -------------------------------------------------------------- next_row
\* faulty variant: the blanking call sets the duty cycle instead of switching off
next_row_pwm_off_unblanked ==
    /\ pc = "pwm_off"
    /\ \E ok \in BOOLEAN :
        /\ Call("pwm_off", ok, "latch_high", "Pwm")
        /\ pwm' = IF ok THEN <<"fraction", brightness>> ELSE pwm
    /\ UNCHANGED <<config, mode, pass, dev, lines, bus, hist, calls>>

next_row_pwm_off ==
    /\ pc = "pwm_off"
    /\ \E ok \in BOOLEAN :
        /\ Call("pwm_off", ok, "latch_high", "Pwm")
        /\ pwm' = IF ok THEN <<"off", 0>> ELSE pwm
    /\ UNCHANGED <<config, mode, pass, dev, lines, bus, hist, calls>>

next_row_latch_high ==
    /\ pc = "latch_high"
    /\ \E ok \in BOOLEAN :
        /\ Call("latch_high", ok, "latch_low", "Digital")
        /\ latch' = IF ok THEN TRUE ELSE latch
    /\ UNCHANGED <<config, mode, pass, dev, pwm, pin_a, pin_b, bus, hist,
                   calls>>

next_row_latch_low ==
    /\ pc = "latch_low"
    /\ \E ok \in BOOLEAN :
        /\ Call("latch_low", ok, "pin_a", "Digital")
        /\ latch' = IF ok THEN FALSE ELSE latch
    /\ UNCHANGED <<config, mode, pass, dev, pwm, pin_a, pin_b, bus, hist,
                   calls>>

\* PinState::from(self.scan_row & 0b01 != 0)
PinAState(s) == s % 2 # 0
\* faulty variant: line B is computed from bit 0 as line A is
PinBState_copy(s) == s % 2 # 0
\* PinState::from(self.scan_row & 0b10 != 0)
PinBState(s) == (s \div 2) % 2 # 0

\* faulty variant: the first address write goes to line B
next_row_pin_a_wrong_line ==
    /\ pc = "pin_a"
    /\ \E ok \in BOOLEAN :
        /\ Call("pin_b", ok, "pin_b", "Digital")
        /\ pin_b' = IF ok THEN PinAState(scan_row) ELSE pin_b
    /\ UNCHANGED <<config, mode, pass, dev, pwm, latch, pin_a, bus, hist,
                   calls>>

next_row_pin_a ==
    /\ pc = "pin_a"
    /\ \E ok \in BOOLEAN :
        /\ Call("pin_a", ok, "pin_b", "Digital")
        /\ pin_a' = IF ok THEN PinAState(scan_row) ELSE pin_a
    /\ UNCHANGED <<config, mode, pass, dev, pwm, latch, pin_b, bus, hist,
                   calls>>

\* faulty variant: the phase is advanced before line B is written
next_row_pin_b_advancing ==
    /\ pc = "pin_b"
    /\ scan_row' = (scan_row + 1) % 4
    /\ \E ok \in BOOLEAN :
        /\ Call("pin_b", ok, "advance", "Digital")
        /\ pin_b' = IF ok THEN PinBState(scan_row) ELSE pin_b
    /\ UNCHANGED <<config, mode, pass, brightness, bitmap, cache, pwm, latch,
                   pin_a, bus, hist, calls>>

next_row_pin_b ==
    /\ pc = "pin_b"
    /\ \E ok \in BOOLEAN :
        /\ Call("pin_b", ok, "advance", "Digital")
        /\ pin_b' = IF ok THEN PinBState(scan_row) ELSE pin_b
    /\ UNCHANGED <<config, mode, pass, dev, pwm, latch, pin_a, bus, hist,
                   calls>>

\* faulty variants: the wrap is missing; the phase advances by two
NextScanRow_nowrap(s) == s + 1
NextScanRow_skip(s) == (s + 2) % 4

\* self.scan_row = (self.scan_row + 1) % 4
NextScanRow(s) == (s + 1) % 4

next_row_advance ==
    /\ pc = "advance"
    /\ scan_row' = NextScanRow(scan_row)
    /\ ops' = Append(ops, [op |-> "advance", ok |-> TRUE, row |-> scan_row])
    /\ pc' = "unblank"
    /\ UNCHANGED <<config, mode, pass, brightness, bitmap, cache, pwm, lines,
                   bus, result, hist, calls, fail_left>>

\* Reenable PWM, then Ok(()) back in the flush loop: the next pass, or the
\* end of the loop and Ok(())
next_row_unblank ==
    /\ pc = "unblank"
    /\ \E ok \in BOOLEAN :
        /\ ok \/ fail_left > 0
        /\ fail_left' = IF ok THEN fail_left ELSE fail_left - 1
        /\ ops' = Append(ops, [op |-> "pwm_fraction", ok |-> ok, row |-> scan_row])
        /\ pwm' = IF ok THEN <<"fraction", brightness>> ELSE pwm
        /\ n_ok' = IF ok THEN n_ok + 1 ELSE n_ok
        /\ n_unblank_fail' = IF ok THEN n_unblank_fail ELSE n_unblank_fail + 1
        /\ IF ~ok
           THEN pc' = "idle" /\ result' = "Pwm" /\ pass' = pass
           ELSE IF pass + 1 < PASSES
           THEN pc' = "fill" /\ result' = result /\ pass' = pass + 1
           ELSE pc' = "idle" /\ result' = "Ok" /\ pass' = pass
    /\ UNCHANGED <<config, mode, dev, lines, bus, call, entry_row, pass_row,
                   calls, args>>

\* --------------------------------------------------------------- draw_iter
draw_iter ==
    /\ pc = "idle" /\ calls < MaxCalls
    /\ calls' = calls + 1
    /\ \E pixels \in BatchesAt(calls) :
        LET r == draw_iter_result(bitmap, pixels)
        IN  /\ bitmap' = r.bm
            /\ drawn' = pixels
            /\ pc' = IF r.panic THEN "panic" ELSE "idle"
            /\ result' = IF r.panic THEN r.cause ELSE "Ok"
    /\ prev_bitmap' = bitmap
    /\ ops' = <<>>
    /\ call' = "draw_iter"
    /\ UNCHANGED <<config, mode, pass, brightness, cache, scan_row, pwm, lines,
                   bus, entry_row, pass_row, n_ok, n_unblank_fail, level_arg,
                   fail_left>>

\* ------------------------------------------------------------------ Next
Next ==
    \/ new
    \/ set_brightness
    \/ asynch
    \/ blocking
    \/ flush_enter
    \/ flush_fill_cache
    \/ flush_spi_write
    \/ flush_spi_write_start
    \/ flush_spi_write_await
    \/ next_row_pwm_off
    \/ next_row_latch_high
    \/ next_row_latch_low
    \/ next_row_pin_a
    \/ next_row_pin_b
    \/ next_row_advance
    \/ next_row_unblank
    \/ draw_iter

\* The default instantiation, with failing collaborators
Spec == Init /\ [][Next]_vars

\* Every tile geometry, without failures
SpecGeom == InitGeom /\ [][Next]_vars

\* ======================================================================
\* Properties
\* ======================================================================
OFF == <<"off", 0>>
InFlush == call = "flush"
Returned(r) == call = "flush" /\ pc = "idle" /\ result = r

\* the last actuator operation logged before position i (0: none)
LastPwm(i) ==
    LET S == {j \in 1..(i - 1) : ops[j].op \in {"pwm_off", "pwm_fraction"}}
    IN  IF S = {} THEN 0 ELSE CHOOSE j \in S : \A k \in S : k <= j

\* the fill_cache that opened the current pass
LastFill ==
    LET S == {j \in DOMAIN ops : ops[j].op = "fill_cache"}
    IN  IF S = {} THEN 0 ELSE CHOOSE j \in S : \A k \in S : k <= j

DoneInPass(o) ==
    \E j \in DOMAIN ops : j > LastFill /\ ops[j].op = o /\ ops[j].ok

\* C1: in every scan pass the actuator is commanded fully off before the
\* latch goes high and before either address line is written, stays off
\* while the latch is high and the address lines change, and is set to the
\* stored fraction again only after latch low and both address writes.
C1_BlankedAroundLatch ==
    InFlush =>
        /\ pc \in {"latch_high", "latch_low", "pin_a", "pin_b", "advance"}
              => pwm = OFF
        /\ pc = "unblank" => ~latch
        /\ \A i \in DOMAIN ops :
              /\ ops[i].op \in {"latch_high", "latch_low", "pin_a", "pin_b"}
                    => /\ LastPwm(i) > 0
                       /\ ops[LastPwm(i)].op = "pwm_off"
                       /\ ops[LastPwm(i)].ok
              /\ ops[i].op = "pwm_fraction"
                    => /\ LastPwm(i) > 0
                       /\ ops[LastPwm(i)].op = "pwm_off"
                       /\ \A o \in {"latch_high", "latch_low", "pin_a", "pin_b"} :
                             \E k \in (LastPwm(i) + 1)..(i - 1) :
                                 ops[k].op = o /\ ops[k].ok

C1_Witness ==
    InFlush /\ pc = "latch_low" /\ latch /\ pwm = OFF /\ pass = 2

\* The order of one scan pass in the code, and the order the spec gives
CodeOrder ==
    <<"fill_cache", "spi_write", "pwm_off", "latch_high", "latch_low",
      "pin_a", "pin_b", "advance", "pwm_fraction">>
BlankFirstOrder ==
    <<"pwm_off", "fill_cache", "spi_write", "latch_high", "latch_low",
      "pin_a", "pin_b", "advance", "pwm_fraction">>
FollowsOrder(order) ==
    \A i \in DOMAIN ops : ops[i].op = order[((i - 1) % Len(order)) + 1]

\* C2 (as amended): in blocking and in async mode alike a scan pass builds
\* and transmits the cache, then blanks, latches high, latches low, writes
\* address lines A and B, advances the phase and unblanks; the blank command
\* comes after the bus transmit of the same pass.
C2_PassOrder ==
    InFlush =>
        /\ FollowsOrder(CodeOrder)
        /\ (pc = "idle" /\ result = "Ok") => Len(ops) = PASSES * Len(CodeOrder)

C2_Witness ==
    Returned("Ok") /\ mode = "Async" /\ Len(ops) = 36

\* C2 as stated: blank, then build and transmit, then latch ...
C2_BlankBeforeTransmit ==
    Returned("Ok") => FollowsOrder(BlankFirstOrder)

IsSpiWrite(e) == e.op = "spi_write"
IsLatchHigh(e) == e.op = "latch_high"
IsLatchLow(e) == e.op = "latch_low"

\* C3: a flush that returns Ok made exactly 4 bus transmits and 4 latch
\* pulses, and the phases of its transmits are entry, entry+1, entry+2,
\* entry+3 (mod 4): each of 0..3 once, whatever the entry phase.
C3_FourPassesAllPhases ==
    Returned("Ok") =>
        LET tx == SelectSeq(ops, IsSpiWrite)
        IN  /\ Len(tx) = 4
            /\ Len(SelectSeq(ops, IsLatchHigh)) = 4
            /\ Len(SelectSeq(ops, IsLatchLow)) = 4
            /\ \A k \in 1..4 : tx[k].ok /\ tx[k].row = (entry_row + k - 1) % 4
            /\ {tx[k].row : k \in 1..4} = 0..3
            /\ scan_row = entry_row

C3_Witness ==
    Returned("Ok") /\ entry_row = 2 /\ fail_left = 0

\* C4 (as amended): the phase counter is always in 0..3, is 0 at
\* construction, and with N passes completed successfully and U passes
\* aborted by a failing unblank it equals (N + U) mod 4 between passes (one
\* more between the advance and the unblank of a pass in progress).
C4_PhaseCounts ==
    /\ scan_row \in 0..3
    /\ scan_row = (n_ok + n_unblank_fail + (IF pc = "unblank" THEN 1 ELSE 0)) % 4

C4_Witness ==
    /\ pc = "idle" /\ n_ok = 2 /\ n_unblank_fail = 1 /\ scan_row = 3
    /\ call = "draw_iter"

\* C4 as stated: the counter equals N mod 4, N the passes completed
\* successfully
C4_PhaseIsOkPassesMod4 ==
    pc = "idle" => scan_row = n_ok % 4

\* C5 (as amended): the counter advances by exactly one in a pass whose bus
\* write, blanking, latch pulse and address writes all succeeded, and not
\* otherwise; a pass whose bus write fails leaves it at its entry value.
C5_AdvanceAfterAddress ==
    (InFlush /\ ops # <<>>) =>
        LET advanced == \A o \in {"spi_write", "pwm_off", "latch_high",
                                  "latch_low", "pin_a", "pin_b", "advance"} :
                            DoneInPass(o)
        IN  /\ scan_row = IF advanced THEN (pass_row + 1) % 4 ELSE pass_row
            /\ Returned("Spi") => scan_row = pass_row

C5_Witness ==
    Returned("Spi") /\ pass = 1 /\ scan_row = pass_row /\ scan_row = 1

\* C5 as stated: a pass whose bus write fails still advances the counter
C5_AdvanceDespiteBusFailure ==
    Returned("Spi") => scan_row = (pass_row + 1) % 4

\* C6: when the bus write of pass k fails, flush returns Error::Spi with
\* that write as its last operation, and the phase is entry + k - 1 mod 4.
C6_BusFailureAborts ==
    (InFlush /\ ops # <<>> /\ IsSpiWrite(ops[Len(ops)]) /\ ~ops[Len(ops)].ok) =>
        /\ pc = "idle" /\ result = "Spi"
        /\ Len(ops) = pass * Len(CodeOrder) + 2
        /\ \A i \in 1..(Len(ops) - 1) : ops[i].ok
        /\ scan_row = (entry_row + pass) % 4

C6_Witness ==
    Returned("Spi") /\ pass = 1 /\ entry_row = 0 /\ scan_row = 1

ErrorOf(o) ==
    CASE o = "spi_write" -> "Spi"
      [] o \in {"pwm_off", "pwm_fraction"} -> "Pwm"
      [] o \in {"latch_high", "latch_low", "pin_a", "pin_b"} -> "Digital"
      [] OTHER -> "none"

\* C7: a failing collaborator operation is the last operation of its flush
\* (nothing follows it, it is not repeated) and flush returns the error of
\* that collaborator's kind.
C7_FailureAbortsWithKind ==
    InFlush =>
        /\ \A i \in DOMAIN ops :
              ~ops[i].ok => /\ i = Len(ops)
                            /\ pc = "idle"
                            /\ result = ErrorOf(ops[i].op)
        /\ (pc = "idle" /\ result # "Ok") =>
              (ops # <<>> /\ ~ops[Len(ops)].ok)

C7_Witness ==
    /\ Returned("Digital") /\ ops[Len(ops)].op = "pin_b" /\ pass = 3
    /\ pwm = OFF

IsSpiWriteOk(e) == e.op = "spi_write" /\ e.ok
\* the phase in which the k-th accepted buffer of the flush was built
SentRow(k) == SelectSeq(ops, IsSpiWriteOk)[k].row

\* C8: the buffer transmitted in phase s holds, at 4i .. 4i+3, the
\* framebuffer bytes (s+0)*stride+i, (s+4)*stride+i, (s+8)*stride+i,
\* (s+12)*stride+i, for every i below the unified row stride.
C8_Interleave ==
    InFlush =>
        \A k \in DOMAIN sent :
            \A i \in 0..(unified_width_bytes - 1), r \in 0..3 :
                /\ 4 * i + r \in DOMAIN sent[k]
                /\ (SentRow(k) + 4 * r) * unified_width_bytes + i \in DOMAIN bitmap
                /\ sent[k][4 * i + r]
                       = bitmap[(SentRow(k) + 4 * r) * unified_width_bytes + i]

\* C9: the bus write of a pass is handed exactly unified_row_stride bytes.
C9_ByteCount ==
    InFlush =>
        \A k \in DOMAIN sent : Cardinality(DOMAIN sent[k]) = unified_width_bytes

AllDark == \A i \in DOMAIN bitmap : bitmap[i] = 255
AllLit ==
    \A x \in 0..(WIDTH - 1), y \in 0..(HEIGHT - 1) :
        /\ pixel_to_bitmap_index(x, y) < BITMAP_LEN
        /\ pixel_to_bitmask(x) > 0
        /\ ~BitIsSet(bitmap[pixel_to_bitmap_index(x, y)], pixel_to_bitmask(x))

\* C10: a flush that returns Ok has handed the bus 4 buffers; every byte of
\* them is 0xFF when the framebuffer is all dark, and 0x00 when every pixel
\* of the display has been drawn on.
C10_DarkAndLitBuffers ==
    Returned("Ok") =>
        /\ Len(sent) = 4
        /\ AllDark => \A k \in 1..4 : \A j \in DOMAIN sent[k] : sent[k][j] = 255
        /\ AllLit => \A k \in 1..4 : \A j \in DOMAIN sent[k] : sent[k][j] = 0

\* ------------------------------------------------------ pixel addressing
Pixels == (0..(WIDTH - 1)) \X (0..(HEIGHT - 1))
Bits == {2 ^ k : k \in 0..7}
Drew == call = "draw_iter"

\* C11: for every tile geometry the map from an in-bounds pixel to its
\* (byte index, bit mask) pair is injective, and its image is exactly the
\* bits 0..7 of the bytes 0 .. WIDTH*HEIGHT/8 - 1.
C11_AddressingBijective ==
    Drew /\ drawn = FillAll =>
        LET img == {<<pixel_to_bitmap_index(p[1], p[2]), pixel_to_bitmask(p[1])>> :
                        p \in Pixels}
        IN  /\ result # "panic_shift"
            /\ Cardinality(img) = WIDTH * HEIGHT
            /\ img = (0..((WIDTH * HEIGHT) \div 8 - 1)) \X Bits

\* C12: the mask of pixel x is the single bit 1 << (7 - x mod 8), most
\* significant bit first, so a draw of pixel (0, 0) on the default display
\* clears bit 7 of byte 0, and pixel (31, 0) lies in byte 3.
C12_MsbFirstMask ==
    Drew /\ drawn = << <<0, 0, TRUE>> >> =>
        /\ \A x \in 0..(WIDTH - 1) : pixel_to_bitmask(x) = 2 ^ (7 - (x % 8))
        /\ pixel_to_bitmap_index(0, 0) = 0
        /\ pixel_to_bitmap_index(31, 0) = 3
        /\ result = "Ok"
        /\ ~BitIsSet(bitmap[0], 128)

\* C13: for every tile geometry the byte of every in-bounds pixel lies
\* inside the framebuffer array: no draw indexes past its end, and the four
\* rows the cache builder reads lie wholly inside it.
C13_IndexInsideBitmap ==
    /\ Drew /\ Len(drawn) = 1 /\ InBounds(drawn[1]) =>
        /\ result # "panic_index"
        /\ pixel_to_bitmap_index(drawn[1][1], drawn[1][2]) \in DOMAIN bitmap
    /\ InFlush /\ ops # <<>> =>
        \A s \in 0..3, k \in 0..3 :
            RowIterLen((s + 4 * k) * unified_width_bytes, unified_width_bytes)
                = unified_width_bytes

\* ------------------------------------------------------------- clipping
OnDisplay(p) == p[1] \in 0..(WIDTH - 1) /\ p[2] \in 0..(HEIGHT - 1)
ByteOf(p) == pixel_to_bitmap_index(p[1], p[2])

\* C14: a draw of pixels that all lie outside the display changes no byte
\* of the framebuffer and returns Ok; in a batch the pixels outside the
\* display are dropped one by one: the batch acts as the batch of its
\* in-bounds pixels alone, and those are applied.
C14_OutOfBoundsDropped ==
    Drew =>
        /\ (\A i \in DOMAIN drawn : ~OnDisplay(drawn[i])) =>
               bitmap = prev_bitmap /\ result = "Ok" /\ pc = "idle"
        /\ LET kept == draw_iter_result(prev_bitmap, SelectSeq(drawn, OnDisplay))
           IN  bitmap = kept.bm /\ (result = "Ok") = ~kept.panic
        /\ drawn = Mixed /\ result = "Ok" =>
               /\ ~BitIsSet(bitmap[ByteOf(Mixed[2])], pixel_to_bitmask(Mixed[2][1]))
               /\ \A j \in DOMAIN bitmap :
                      j # ByteOf(Mixed[2]) => bitmap[j] = prev_bitmap[j]

C14_Witness ==
    Drew /\ drawn = Mixed /\ result = "Ok" /\ bitmap # prev_bitmap

\* C15: a draw of an in-bounds pixel returns Ok and leaves the pixel's bit
\* cleared for 'on' and set for 'off'; drawing the colour the pixel already
\* has changes nothing; from a dark pixel, on followed by off restores the
\* framebuffer exactly.
C15_DrawIdempotentAndReversible ==
    /\ Drew /\ Len(drawn) = 1 /\ OnDisplay(drawn[1]) =>
        /\ result = "Ok"
        /\ LET p == drawn[1]
               m == pixel_to_bitmask(p[1])
           IN  /\ BitIsSet(bitmap[ByteOf(p)], m) = ~p[3]
               /\ BitIsSet(prev_bitmap[ByteOf(p)], m) = ~p[3] =>
                      bitmap = prev_bitmap
    /\ Drew /\ Len(drawn) = 2 /\ OnDisplay(drawn[1])
            /\ drawn = OnOff(<<drawn[1][1], drawn[1][2]>>) =>
        /\ result = "Ok"
        /\ BitIsSet(prev_bitmap[ByteOf(drawn[1])], pixel_to_bitmask(drawn[1][1])) =>
               bitmap = prev_bitmap

\* ----------------------------------------------------------- brightness
PassDone ==
    InFlush /\ ops # <<>> /\ ops[Len(ops)].op = "pwm_fraction" /\ ops[Len(ops)].ok

\* C16: at the end of every successfully completed scan pass the command the
\* actuator accepted last is 'set fraction b/65535' with b the level given
\* to the construction or to the latest set_brightness call, however
\* set_brightness, draw and flush calls interleave.
C16_UnblankAppliesStoredLevel == PassDone => pwm = <<"fraction", level_arg>>

C16_Witness ==
    /\ Returned("Ok") /\ n_ok = PASSES
    /\ calls = MaxCalls /\ fail_left < MaxFailures
    /\ pwm = <<"fraction", level_arg>> /\ level_arg # 0

\* C17: construction commands the initial brightness first.  If that fails
\* it returns Error::Pwm, yields no device and performs no bus or digital
\* line operation; if it succeeds the device has an all-dark framebuffer,
\* scan phase 0 and the given level stored.
C17_Construction ==
    /\ call = "new" =>
        /\ Len(ops) = 1 /\ ops[1].op = "pwm_fraction"
        /\ sent = <<>> /\ DOMAIN spi_buf = {}
        /\ ~latch /\ ~pin_a /\ ~pin_b
        /\ IF ops[1].ok
           THEN /\ result = "Ok" /\ pc = "idle"
                /\ AllDark /\ scan_row = 0
                /\ brightness = level_arg /\ pwm = <<"fraction", level_arg>>
           ELSE /\ result = "Pwm" /\ pc = "no_device"
                /\ pwm[1] = "none"
    /\ pc = "no_device" => call = "new" /\ calls = 0

C17_Witness == pc = "no_device" /\ result = "Pwm" /\ ~ops[1].ok

\* ------------------------------------------------------------ scan cache
\* C18: every fill_cache overwrites every byte of the scan cache, so the
\* buffer given to the bus depends on the framebuffer and the phase only,
\* not on what the cache held before.
C18_CacheFullyOverwritten ==
    \A v \in {0, 255} :
        LET before == [j \in 0..(CACHE_LEN - 1) |-> v]
        IN  /\ pc = "spi" => cache = fill_cache(bitmap, before, pass_row)
            /\ InFlush =>
                   \A k \in DOMAIN sent :
                       sent[k] = fill_cache(bitmap, before, SentRow(k))

\* --------------------------------------------------------- address lines
IsOk(i, o) == i \in DOMAIN ops /\ ops[i].op = o /\ ops[i].ok
LineCode == (IF pin_b THEN 2 ELSE 0) + (IF pin_a THEN 1 ELSE 0)

\* C19: the address lines are written from the phase s whose data the same
\* pass transmitted: A is high iff bit 0 of s, B iff bit 1 of s, A before B,
\* both after the latch pulse and before the phase advances; after every
\* successful pass (B, A) encodes (phase - 1) mod 4.
C19_AddressFromTransmittedPhase ==
    InFlush =>
        /\ \A i \in DOMAIN ops :
            /\ ops[i].op = "pin_a" =>
                   /\ IsOk(i - 1, "latch_low") /\ IsOk(i - 2, "latch_high")
                   /\ IsOk(i - 4, "spi_write") /\ ops[i - 4].row = ops[i].row
            /\ ops[i].op = "pin_b" =>
                   IsOk(i - 1, "pin_a") /\ ops[i - 1].row = ops[i].row
            /\ ops[i].op = "advance" =>
                   IsOk(i - 1, "pin_b") /\ ops[i - 1].row = ops[i].row
        /\ DoneInPass("pin_a") => pin_a = (pass_row % 2 = 1)
        /\ DoneInPass("pin_b") => pin_b = ((pass_row \div 2) % 2 = 1)
        /\ PassDone => LineCode = (scan_row + 3) % 4

C19_Witness ==
    PassDone /\ pin_b /\ ~pin_a /\ pass_row = 2 /\ scan_row = 3

\* ------------------------------------------------------- failing passes
LastOp == ops[Len(ops)]
FlushFailed ==
    call = "flush" /\ pc = "idle" /\ result \in {"Spi", "Pwm", "Digital"}

\* C20: the phase advances only after the latch pulse and both address
\* writes have succeeded.  A flush that returns Error::Digital, or
\* Error::Pwm from the blanking step, leaves the phase at its value at the
\* start of the failing pass; a flush that fails after the blanking step
\* (latch, address or unblank) leaves the actuator fully off; only a failed
\* unblank leaves the phase advanced past the failing pass.
C20_PhaseAfterFailure ==
    /\ InFlush =>
        \A i \in DOMAIN ops :
            ops[i].op = "advance" =>
                /\ IsOk(i - 1, "pin_b") /\ IsOk(i - 2, "pin_a")
                /\ IsOk(i - 3, "latch_low") /\ IsOk(i - 4, "latch_high")
    /\ Returned("Digital") =>
        /\ LastOp.op \in {"latch_high", "latch_low", "pin_a", "pin_b"}
        /\ scan_row = pass_row
        /\ pwm = OFF
    /\ Returned("Pwm") =>
        /\ LastOp.op \in {"pwm_off", "pwm_fraction"}
        /\ LastOp.op = "pwm_off" => scan_row = pass_row
        /\ LastOp.op = "pwm_fraction" =>
               scan_row = (pass_row + 1) % 4 /\ pwm = OFF
    /\ FlushFailed /\ scan_row # pass_row => LastOp.op = "pwm_fraction"

C20_Witness ==
    /\ Returned("Digital") /\ LastOp.op = "pin_b" /\ ~LastOp.ok
    /\ pass_row # entry_row /\ scan_row = pass_row /\ pwm = OFF
====
